---- MODULE Spec2Model ----
(***************************************************************************)
(* panoramaMaker, tile.c: the DTED elevation sample codec                  *)
(* (toLittleEndian), the DTED tile decoder (openTile), and the geographic  *)
(* tile container (initSpace, freeSpace, freeTile).                        *)
(*                                                                         *)
(* Two specifications:                                                     *)
(*   SpecCodec  the pure function toLittleEndian over every 16-bit value;  *)
(*   Spec       one caller running initSpace(origin) -> openTile(file)     *)
(*              -> freeSpace(space), one source statement group per step.  *)
(***************************************************************************)
EXTENDS Integers, Sequences, FiniteSets

VARIABLES
  \* ---- codec harness (SpecCodec)
  cx,            \* the 16-bit value handed to the harness
  cout,          \* the value toLittleEndian returned
  cpc,           \* "idle" | "raw" | "disk"
  \* ---- inputs of the run (Spec)
  originLon,     \* initSpace's originLon, in units of 1/Scale degree
  originLat,     \* initSpace's originLat, in units of 1/Scale degree
  fsExists,      \* whether fopen finds the file
  fsLat,         \* the 4 bytes of the file's latitude count field
  fsLon,         \* the 4 bytes of the file's longitude count field
  fsCov,         \* the 2 bytes of the file's data coverage field
  fsSize,        \* the file's length in bytes
  \* ---- control
  pc,            \* position of the caller in initSpace/openTile/freeSpace
  err,           \* which errPrintf call ended the process, or "none"
  reported,      \* the value that errPrintf call printed (expectedSize)
  \* ---- initSpace
  spaceOrigin,   \* space->originLon, space->originLat
  tiles,         \* space->tiles
  fileName,      \* the four fields sprintf puts into the file name
  returnedSpace, \* initSpace has executed `return space`
  \* ---- openTile
  dtedFile,      \* "unopened" | "null" | "open" | "closed"
  fileSize, expectedSize, nbLat, nbLon, coverage,
  tileDims,      \* <<tile->latitudeDimension, tile->longitudeDimension>>
  dataLen,       \* number of int16 elements malloc gave tile->data
  data,          \* tile->data, defined on the indices stored so far
  writes,        \* how many stores each element of tile->data received
  stray,         \* indices outside tile->data the loop stored to
  reads,         \* number of 2-byte sample reads done
  i, j, fpos,    \* loop counters and the file position
  returnedTile,  \* openTile has executed `return tile`
  \* ---- heap
  live,          \* the blocks malloc returned and free has not released
  freed,         \* how many times free was called on each block
  k              \* freeSpace's loop counter

codecVars == <<cx, cout, cpc>>
inputVars == <<originLon, originLat, fsExists, fsLat, fsLon, fsCov, fsSize>>
spaceVars == <<spaceOrigin, tiles, fileName, returnedSpace>>
tileVars  == <<dtedFile, fileSize, expectedSize, nbLat, nbLon, coverage,
               tileDims, dataLen, data, writes, stray, reads, i, j, fpos,
               returnedTile>>
heapVars  == <<live, freed, k>>
ctlVars   == <<pc, err, reported>>
vars == <<codecVars, inputVars, spaceVars, tileVars, heapVars, ctlVars>>

-----------------------------------------------------------------------------
(* Bounds of the model.                                                    *)

\* Origins are multiples of 1/Scale degree.
Scale == 2
\* Origins range over -MaxDeg .. MaxDeg degrees on each axis.
MaxDeg == 1
\* Files whose decode loop runs have counts "0000" .. "000<MaxDim>".
MaxDim == 3

-----------------------------------------------------------------------------
(* Fixed-width integers and bit operations.                                *)

TwoTo8  == 256
TwoTo15 == 32768
TwoTo16 == 65536

RECURSIVE NatAnd(_, _)
NatAnd(a, b) ==
  IF a = 0 \/ b = 0 THEN 0
  ELSE (IF a % 2 = 1 /\ b % 2 = 1 THEN 1 ELSE 0) + 2 * NatAnd(a \div 2, b \div 2)

RECURSIVE NatOr(_, _)
NatOr(a, b) ==
  IF a = 0 THEN b
  ELSE IF b = 0 THEN a
  ELSE (IF a % 2 = 1 \/ b % 2 = 1 THEN 1 ELSE 0) + 2 * NatOr(a \div 2, b \div 2)

\* (uint16_t) x
ToUint16(x) == x % TwoTo16

\* conversion of an int to int16_t (two's complement wrap)
ToInt16(v) == LET u == v % TwoTo16 IN IF u >= TwoTo15 THEN u - TwoTo16 ELSE u

\* x & m for an int x (an int16_t promoted, so sign-extended) and a mask m
\* below 2^16: only the low 16 bits of x take part.
IntAndMask(x, m) == NatAnd(x % TwoTo16, m)

-----------------------------------------------------------------------------
(* toLittleEndian, tile.c:27-32.                                           *)

\* line 29 with the shifts of a nibble swap
SwapOctetsBad(x) == ToInt16(NatOr(ToUint16(x) \div 16, ToUint16(x) * 16))

\* line 29: x = ((uint16_t) x >> 8) | ((uint16_t) x << 8);
SwapOctets(x) == ToInt16(NatOr(ToUint16(x) \div TwoTo8, ToUint16(x) * TwoTo8))

\* line 30 with the magnitude mask one bit short
SignMagnitudeBad(x) ==
  IF IntAndMask(x, 32768) # 0 THEN ToInt16(-1 * IntAndMask(x, 16383)) ELSE x

\* line 30: x = x & 0x8000 ? -1 * (x & 0x7FFF) : x;
SignMagnitude(x) ==
  IF IntAndMask(x, 32768) # 0 THEN ToInt16(-1 * IntAndMask(x, 32767)) ELSE x

toLittleEndian(x) == SignMagnitude(SwapOctets(x))

-----------------------------------------------------------------------------
(* The environment: the DTED file found at the path openTile is given.     *)

\* The on-disk form of an elevation e (spec 4.1 and glossary): bit 15 is
\* the sign flag, bits 0-14 the magnitude, high octet first in the file.
EncodeLikeDisk(e) ==
  LET sm == IF e < 0 THEN TwoTo15 + ((-e) % TwoTo15) ELSE e % TwoTo15
  IN  <<sm \div TwoTo8, sm % TwoTo8>>

\* fread(&v, 2, 1, f) into an int16_t on the little-endian host: the first
\* byte of the file is the low octet.
FreadInt16(b) == ToInt16(b[1] + TwoTo8 * b[2])

\* ASCII '0', tile.c:70
Ascii0 == 48

\* tile.c:70-71 with a one-place slip in the weights
FieldValueBad(h) ==
  10000 * (h[1] - Ascii0) + 100 * (h[2] - Ascii0) + 10 * (h[3] - Ascii0)
  + (h[4] - Ascii0)

\* nbLat / nbLon as the code computes them from 4 header chars, tile.c:70-75
FieldValue(h) ==
  1000 * (h[1] - Ascii0) + 100 * (h[2] - Ascii0) + 10 * (h[3] - Ascii0)
  + (h[4] - Ascii0)

\* coverage, tile.c:89-90
CoverageValue(c) ==
  LET v == 10 * (c[1] - Ascii0) + (c[2] - Ascii0) IN IF v # 0 THEN v ELSE 100

\* Offset of the elevation data section: DTED_DATA of tile.h, the offset D
\* of spec section 6, which tile.c:106 writes as the literal 3428.
DTED_DATA == 3428
\* Bytes before and after the samples of one longitude record,
\* tile.c:109 and tile.c:116; their sum is the 12 of tile.c:81.
RecordHeader == 8
RecordChecksum == 4
\* Number of tile slots of a Space: SIZE_SPACE of tile.h.
SIZE_SPACE == 9

\* tile.c:81 without the per-record overhead
ExpectedSizeBad(lat, lon) == DTED_DATA + (lat * 2) * lon

\* expectedSize, tile.c:81
ExpectedSize(lat, lon) == DTED_DATA + (lat * 2 + 12) * lon

\* The elevation the file holds for sample j of longitude record r: a
\* different value for each post, negative on odd posts.
Elevation(r, jj) ==
  LET m == 100 + 10 * r + jj IN IF (r + jj) % 2 = 1 THEN -m ELSE m

\* The byte at offset pos of the data section of a file whose header says
\* lat samples per record: record header (sentinel 0xAA first), samples,
\* checksum.
FileByte(lat, pos) ==
  LET recLen == 2 * lat + RecordHeader + RecordChecksum
      r      == (pos - DTED_DATA) \div recLen
      off    == (pos - DTED_DATA) % recLen
  IN  IF off < RecordHeader THEN (IF off = 0 THEN 170 ELSE 0)
      ELSE IF off < RecordHeader + 2 * lat
        THEN EncodeLikeDisk(Elevation(r, (off - RecordHeader) \div 2))
               [((off - RecordHeader) % 2) + 1]
        ELSE 255

\* The header count fields the model draws from: "0000".."000<MaxDim>",
\* "0121", "9999", and two fields with a byte that is no digit:
\* ":000" (':' is '9'+1) and "000/" ('/' is '0'-1).
SmallFields == { <<48, 48, 48, 48 + d>> : d \in 0..MaxDim }
DigitFields == SmallFields \cup { <<48, 49, 50, 49>>, <<57, 57, 57, 57>> }
HeaderFields == DigitFields \cup { <<58, 48, 48, 48>>, <<48, 48, 48, 47>> }
CovFields == { <<48, 48>>, <<51, 55>> }

IsDigit(c) == c \in 48..57
IsDigits(h) == \A n \in 1..4 : IsDigit(h[n])

\* The decode loop of a drawn file stays within MaxDim x MaxDim, or does
\* not run at all (no longitude record).
LoopBounded(hLat, hLon) ==
  \/ FieldValue(hLon) <= 0
  \/ FieldValue(hLon) <= MaxDim /\ FieldValue(hLat) <= MaxDim

NULL == "NULL"
Origins == (0 - MaxDeg * Scale) .. (MaxDeg * Scale)

\* The length of a file laid out as the DTED format says for lat x lon
\* posts: the header sections, then lon records of header, samples,
\* checksum.
FileLayoutSize(lat, lon) ==
  DTED_DATA + lon * (RecordHeader + 2 * lat + RecordChecksum)

\* The offset tile.c:106 seeks to before the decode loop.
DataSeek == 3428

-----------------------------------------------------------------------------
(* Initial states.                                                         *)

CodecIdle == cx = 0 /\ cout = 0 /\ cpc = "off"

ProgramStart ==
  /\ err = "none" /\ reported = 0
  /\ spaceOrigin = <<0, 0>> /\ tiles = << >>
  /\ fileName = [latDir |-> "", latDeg |-> 0, lonDir |-> "", lonDeg |-> 0]
  /\ returnedSpace = FALSE
  /\ dtedFile = "unopened"
  /\ fileSize = 0 /\ expectedSize = 0 /\ nbLat = 0 /\ nbLon = 0
  /\ coverage = 0 /\ tileDims = <<0, 0>> /\ dataLen = 0
  /\ data = << >> /\ writes = << >> /\ stray = {} /\ reads = 0
  /\ i = 0 /\ j = 0 /\ fpos = 0
  /\ returnedTile = FALSE
  /\ live = {} /\ freed = [b \in {"space", "tile", "data"} |-> 0] /\ k = 0

\* A caller about to run initSpace(originLon, originLat) with, at the path
\* initSpace will build, either no file or a DTED file whose length is the
\* length its header implies, or one byte off.
Init ==
  /\ CodecIdle
  /\ originLon \in Origins
  /\ originLat \in Origins
  /\ fsExists \in BOOLEAN
  /\ IF fsExists
       THEN /\ fsLat \in HeaderFields
            /\ fsLon \in HeaderFields
            /\ LoopBounded(fsLat, fsLon)
            /\ fsCov \in CovFields
            /\ \E d \in {-1, 0, 1} :
                 fsSize = FileLayoutSize(FieldValue(fsLat), FieldValue(fsLon)) + d
            /\ fsSize >= 0
       ELSE /\ fsLat = <<48, 48, 48, 48>>
            /\ fsLon = <<48, 48, 48, 48>>
            /\ fsCov = <<48, 48>>
            /\ fsSize = 0
  /\ pc = "initSpace"
  /\ ProgramStart

\* The codec harness: any 16-bit value, the program itself not started.
InitCodec ==
  /\ cx \in (0 - TwoTo15) .. (TwoTo15 - 1)
  /\ cout = 0
  /\ cpc = "idle"
  /\ originLon = 0 /\ originLat = 0
  /\ fsExists = FALSE
  /\ fsLat = <<48, 48, 48, 48>> /\ fsLon = <<48, 48, 48, 48>>
  /\ fsCov = <<48, 48>> /\ fsSize = 0
  /\ pc = "off"
  /\ ProgramStart

-----------------------------------------------------------------------------
(* The codec harness.                                                      *)

\* toLittleEndian applied to the raw value cx.
ConvertRaw ==
  /\ cpc = "idle"
  /\ cout' = toLittleEndian(cx)
  /\ cpc' = "raw"
  /\ UNCHANGED <<cx, inputVars, spaceVars, tileVars, heapVars, ctlVars>>

\* toLittleEndian applied to what fread delivers for the on-disk form of
\* the elevation cx.
DecodeDisk ==
  /\ cpc = "idle"
  /\ cout' = toLittleEndian(FreadInt16(EncodeLikeDisk(cx)))
  /\ cpc' = "disk"
  /\ UNCHANGED <<cx, inputVars, spaceVars, tileVars, heapVars, ctlVars>>

NextCodec == ConvertRaw \/ DecodeDisk

SpecCodec == InitCodec /\ [][NextCodec]_vars

-----------------------------------------------------------------------------
(* Helpers of the program's steps.                                         *)

\* errPrintf (error.h): reports and terminates the process (spec 6, 7, 9).
ErrExit(kind, value) ==
  /\ pc' = "exit"
  /\ err' = kind
  /\ reported' = value

\* What malloc may return for a request of n elements: a request computed
\* from a negative int is a size_t near the top of the range and fails;
\* any other request (malloc(0) included) may succeed or fail.
MallocOutcomes(n) == IF n < 0 THEN {FALSE} ELSE BOOLEAN

\* tile.c:147 with the size given in bytes instead of pointers: the last
\* slots keep what malloc left there
ClearedTilesBad ==
  [s \in 0 .. (SIZE_SPACE - 1) |-> IF s < SIZE_SPACE - 1 THEN NULL ELSE "garbage"]

\* memset(space->tiles, 0, SIZE_SPACE * sizeof(Tile*)), tile.c:147
ClearedTiles == [s \in 0 .. (SIZE_SPACE - 1) |-> NULL]

\* (int) of a double given in units of 1/Scale: truncation toward zero
TruncToInt(v) == IF v >= 0 THEN v \div Scale ELSE 0 - ((0 - v) \div Scale)

\* lonDir / latDir, tile.c:150-151
Hemisphere(origin, pos, neg) == IF origin > 0 THEN pos ELSE neg

\* lonDeg / latDeg, tile.c:152-155
DegreeMagnitude(origin) ==
  LET deg == TruncToInt(origin) IN IF deg > 0 THEN deg ELSE 0 - (deg - 1)

\* the slot initSpace stores the tile in, tile.c:158
CenterSlot == SIZE_SPACE \div 2

\* pt, tile.c:112
SampleIndex(ii, jj, lat, lon) == ii * lon + jj

\* tile.c:41-42 without free(tile->data)
FreeTileBlocksBad == <<"tile">>

\* the blocks freeTile releases, in order, tile.c:41-42
FreeTileBlocks == <<"data", "tile">>

\* one more call of free on each block of the sequence bs
FreedAfter(bs) ==
  [b \in DOMAIN freed |->
     freed[b] + Cardinality({n \in 1 .. Len(bs) : bs[n] = b})]
LiveAfter(bs) == live \ {bs[n] : n \in 1 .. Len(bs)}

-----------------------------------------------------------------------------
(* initSpace, tile.c:131-161.                                              *)

\* lines 141-147: allocate the Space, store the origin, clear the slots
SpaceAlloc ==
  /\ pc = "initSpace"
  /\ \E ok \in MallocOutcomes(1) :
       IF ok
         THEN /\ live' = live \cup {"space"}
              /\ spaceOrigin' = <<originLon, originLat>>
              /\ tiles' = ClearedTiles
              /\ pc' = "fileName"
              /\ UNCHANGED <<err, reported>>
         ELSE /\ ErrExit("spaceAlloc", 0)
              /\ UNCHANGED <<live, spaceOrigin, tiles>>
  /\ UNCHANGED <<codecVars, inputVars, fileName, returnedSpace, tileVars,
                 freed, k>>

\* lines 149-158: build the file name and call openTile with it
MakeFileName ==
  /\ pc = "fileName"
  /\ fileName' = [latDir |-> Hemisphere(originLat, "n", "s"),
                  latDeg |-> DegreeMagnitude(originLat),
                  lonDir |-> Hemisphere(originLon, "e", "w"),
                  lonDeg |-> DegreeMagnitude(originLon)]
  /\ pc' = "fopen"
  /\ UNCHANGED <<codecVars, inputVars, spaceOrigin, tiles, returnedSpace,
                 tileVars, heapVars, err, reported>>

\* lines 158-160: store openTile's result in the center slot, return space
StoreTile ==
  /\ pc = "store"
  /\ tiles' = [tiles EXCEPT ![CenterSlot] = "tile"]
  /\ returnedSpace' = TRUE
  /\ pc' = "ready"
  /\ UNCHANGED <<codecVars, inputVars, spaceOrigin, fileName, tileVars,
                 heapVars, err, reported>>

-----------------------------------------------------------------------------
(* openTile, tile.c:51-121.                                                *)

\* lines 60-65
OpenFile ==
  /\ pc = "fopen"
  /\ IF fsExists
       THEN /\ dtedFile' = "open"
            /\ pc' = "header"
            /\ UNCHANGED <<err, reported>>
       ELSE /\ dtedFile' = "null"
            /\ ErrExit("open", 0)
  /\ UNCHANGED <<codecVars, inputVars, spaceVars, fileSize, expectedSize,
                 nbLat, nbLon, coverage, tileDims, dataLen, data, writes,
                 stray, reads, i, j, fpos, returnedTile, heapVars>>

\* lines 68-75: the two count fields
ReadHeader ==
  /\ pc = "header"
  /\ nbLat' = FieldValue(fsLat)
  /\ nbLon' = FieldValue(fsLon)
  /\ pc' = "check"
  /\ UNCHANGED <<codecVars, inputVars, spaceVars, dtedFile, fileSize,
                 expectedSize, coverage, tileDims, dataLen, data, writes,
                 stray, reads, i, j, fpos, returnedTile, heapVars, err,
                 reported>>

\* lines 78-86: the size check
CheckSize ==
  /\ pc = "check"
  /\ fileSize' = fsSize
  /\ expectedSize' = ExpectedSize(nbLat, nbLon)
  /\ IF fileSize' # expectedSize'
       THEN ErrExit("size", expectedSize')
       ELSE pc' = "coverage" /\ UNCHANGED <<err, reported>>
  /\ UNCHANGED <<codecVars, inputVars, spaceVars, dtedFile, nbLat, nbLon,
                 coverage, tileDims, dataLen, data, writes, stray, reads,
                 i, j, fpos, returnedTile, heapVars>>

\* lines 87-91: the data coverage field
ReadCoverage ==
  /\ pc = "coverage"
  /\ coverage' = CoverageValue(fsCov)
  /\ pc' = "allocTile"
  /\ UNCHANGED <<codecVars, inputVars, spaceVars, dtedFile, fileSize,
                 expectedSize, nbLat, nbLon, tileDims, dataLen, data,
                 writes, stray, reads, i, j, fpos, returnedTile, heapVars,
                 err, reported>>

\* lines 94-97: tile = malloc(sizeof(Tile))
AllocTile ==
  /\ pc = "allocTile"
  /\ \E ok \in MallocOutcomes(1) :
       IF ok
         THEN /\ live' = live \cup {"tile"}
              /\ pc' = "allocData"
              /\ UNCHANGED <<err, reported>>
         ELSE /\ ErrExit("tileAlloc", 0)
              /\ UNCHANGED live
  /\ UNCHANGED <<codecVars, inputVars, spaceVars, tileVars, freed, k>>

\* lines 98-101: tile->data = malloc(nbLat * nbLon * sizeof(uint16_t))
AllocData ==
  /\ pc = "allocData"
  /\ \E ok \in MallocOutcomes(nbLat * nbLon) :
       IF ok
         THEN /\ live' = live \cup {"data"}
              /\ dataLen' = nbLat * nbLon
              /\ writes' = [x \in 0 .. (nbLat * nbLon - 1) |-> 0]
              /\ pc' = "dims"
              /\ UNCHANGED <<err, reported>>
         ELSE /\ ErrExit("dataAlloc", 0)
              /\ UNCHANGED <<live, dataLen, writes>>
  /\ UNCHANGED <<codecVars, inputVars, spaceVars, dtedFile, fileSize,
                 expectedSize, nbLat, nbLon, coverage, tileDims, data,
                 stray, reads, i, j, fpos, returnedTile, freed, k>>

\* lines 104-107: the dimensions, the seek to the data, i = 0
StartData ==
  /\ pc = "dims"
  /\ tileDims' = <<nbLat, nbLon>>
  /\ fpos' = DataSeek
  /\ i' = 0
  /\ pc' = "outer"
  /\ UNCHANGED <<codecVars, inputVars, spaceVars, dtedFile, fileSize,
                 expectedSize, nbLat, nbLon, coverage, dataLen, data,
                 writes, stray, reads, j, returnedTile, heapVars, err,
                 reported>>

\* lines 107-110: i < nbLon, skip the record header, j = 0
RecordStart ==
  /\ pc = "outer"
  /\ i < nbLon
  /\ fpos' = fpos + RecordHeader
  /\ j' = 0
  /\ pc' = "inner"
  /\ UNCHANGED <<codecVars, inputVars, spaceVars, dtedFile, fileSize,
                 expectedSize, nbLat, nbLon, coverage, tileDims, dataLen,
                 data, writes, stray, reads, i, returnedTile, heapVars,
                 err, reported>>

\* lines 110-115: j < nbLat, read one sample, convert it, store it at pt.
\* A store outside tile->data is undefined behaviour: the process is
\* killed, or the store lands in memory that is not the buffer's.
StoreSample ==
  /\ pc = "inner"
  /\ j < nbLat
  /\ LET pt == SampleIndex(i, j, nbLat, nbLon)
         x  == FreadInt16(<<FileByte(FieldValue(fsLat), fpos),
                            FileByte(FieldValue(fsLat), fpos + 1)>>)
     IN  IF pt \in 0 .. (dataLen - 1)
           THEN /\ data' = [n \in DOMAIN data \cup {pt} |->
                              IF n = pt THEN toLittleEndian(x) ELSE data[n]]
                /\ writes' = [writes EXCEPT ![pt] = @ + 1]
                /\ pc' = "inner"
                /\ UNCHANGED stray
           ELSE /\ \E killed \in BOOLEAN :
                     IF killed
                       THEN pc' = "crashed" /\ UNCHANGED stray
                       ELSE pc' = "inner" /\ stray' = stray \cup {pt}
                /\ UNCHANGED <<data, writes>>
  /\ fpos' = fpos + 2
  /\ j' = j + 1
  /\ reads' = reads + 1
  /\ UNCHANGED <<codecVars, inputVars, spaceVars, dtedFile, fileSize,
                 expectedSize, nbLat, nbLon, coverage, tileDims, dataLen,
                 i, returnedTile, heapVars, err, reported>>

\* lines 110, 116, 107: j reached nbLat, skip the checksum, i++
RecordEnd ==
  /\ pc = "inner"
  /\ ~(j < nbLat)
  /\ fpos' = fpos + RecordChecksum
  /\ i' = i + 1
  /\ pc' = "outer"
  /\ UNCHANGED <<codecVars, inputVars, spaceVars, dtedFile, fileSize,
                 expectedSize, nbLat, nbLon, coverage, tileDims, dataLen,
                 data, writes, stray, reads, j, returnedTile, heapVars,
                 err, reported>>

\* lines 107, 119-120: i reached nbLon, close the file, return the tile
CloseReturn ==
  /\ pc = "outer"
  /\ ~(i < nbLon)
  /\ dtedFile' = "closed"
  /\ returnedTile' = TRUE
  /\ pc' = "store"
  /\ UNCHANGED <<codecVars, inputVars, spaceVars, fileSize, expectedSize,
                 nbLat, nbLon, coverage, tileDims, dataLen, data, writes,
                 stray, reads, i, j, fpos, heapVars, err, reported>>

-----------------------------------------------------------------------------
(* freeSpace and freeTile, tile.c:168-178 and tile.c:39-43.                *)

\* the caller hands the Space initSpace returned to freeSpace; line 170, i = 0
CallFreeSpace ==
  /\ pc = "ready"
  /\ k' = 0
  /\ pc' = "freeLoop"
  /\ UNCHANGED <<codecVars, inputVars, spaceVars, tileVars, live, freed,
                 err, reported>>

\* lines 170-176: one slot; freeTile on a populated one.  After a store
\* outside tile->data the heap may be damaged, and free may kill the
\* process.
FreeSlot ==
  /\ pc = "freeLoop"
  /\ k < SIZE_SPACE
  /\ IF tiles[k] # NULL
       THEN \E killed \in (IF stray = {} THEN {FALSE} ELSE BOOLEAN) :
              IF killed
                THEN pc' = "crashed" /\ UNCHANGED <<live, freed>>
                ELSE /\ live' = LiveAfter(FreeTileBlocks)
                     /\ freed' = FreedAfter(FreeTileBlocks)
                     /\ pc' = "freeLoop"
       ELSE pc' = "freeLoop" /\ UNCHANGED <<live, freed>>
  /\ k' = k + 1
  /\ UNCHANGED <<codecVars, inputVars, spaceVars, tileVars, err, reported>>

\* lines 170, 177: the loop is over, free(space)
FreeSpaceEnd ==
  /\ pc = "freeLoop"
  /\ ~(k < SIZE_SPACE)
  /\ live' = LiveAfter(<<"space">>)
  /\ freed' = FreedAfter(<<"space">>)
  /\ pc' = "done"
  /\ UNCHANGED <<codecVars, inputVars, spaceVars, tileVars, k, err, reported>>

-----------------------------------------------------------------------------

Next ==
  \/ SpaceAlloc
  \/ MakeFileName
  \/ OpenFile
  \/ ReadHeader
  \/ CheckSize
  \/ ReadCoverage
  \/ AllocTile
  \/ AllocData
  \/ StartData
  \/ RecordStart
  \/ StoreSample
  \/ RecordEnd
  \/ CloseReturn
  \/ StoreTile
  \/ CallFreeSpace
  \/ FreeSlot
  \/ FreeSpaceEnd

Spec == Init /\ [][Next]_vars

-----------------------------------------------------------------------------
(* Properties.                                                             *)

\* The reference conversion of C1: s is x with its two octets swapped; if
\* bit 15 of s is set the result is minus the low 15 bits of s, else s.
ReferenceConversion(x) ==
  LET u == x % TwoTo16
      s == (u % TwoTo8) * TwoTo8 + (u \div TwoTo8)
  IN  IF s >= TwoTo15 THEN 0 - (s % TwoTo15) ELSE s

\* C1: for every 16-bit raw value x, toLittleEndian(x) equals the
\* reference result (octets swapped, then sign-magnitude read).
C1_MatchesReference ==
  cpc = "raw" => cout = ReferenceConversion(cx)

\* The raw value fread delivers for the disk bytes 0x80 0x64 converts to -100.
C1_Witness ==
  cpc = "raw" /\ cx = 25728 /\ cout = -100

\* C2 as stated: decoding the on-disk encoding of x yields x for every x
\* in -32768..32767.
C2_RoundTripAll ==
  cpc = "disk" => cout = cx

\* C2, amended: decoding the on-disk encoding of x yields x for every x in
\* -32767..32767 (sign-magnitude has no encoding of -32768).
C2_RoundTrip ==
  (cpc = "disk" /\ cx >= 0 - (TwoTo15 - 1)) => cout = cx

\* The disk encoding of -100 decodes to -100.
C2_Witness ==
  cpc = "disk" /\ cx = -100 /\ cout = -100

\* The size the header's own counts call for, as C3 writes it.
HeaderExpectedSize ==
  DTED_DATA + (FieldValue(fsLat) * 2 + 12) * FieldValue(fsLon)

\* openTile was entered with a file that opened, and has ended.
OpenTileEnded ==
  /\ dtedFile \in {"open", "closed"}
  /\ pc \in {"exit", "crashed", "store", "ready", "freeLoop", "done"}

\* openTile is past its size check.
SizeChecked ==
  dtedFile \in {"open", "closed"} /\ pc \notin {"header", "check"}

\* What C3 and its amendment say of a file whose size differs: the decode
\* ends in the size-mismatch error, which reports the expected size; no
\* allocation, no sample read and no return follow.
SizeMismatchIsFatal ==
  (SizeChecked /\ fsSize # HeaderExpectedSize) =>
     /\ pc = "exit" /\ err = "size"
     /\ reported = HeaderExpectedSize
     /\ "tile" \notin live /\ "data" \notin live
     /\ reads = 0
     /\ ~returnedTile

\* C3 as stated: openTile returns a tile if and only if the file size
\* equals the expected size; a differing size is fatal as above.
C3_ReturnsIffSizeMatches ==
  /\ OpenTileEnded => (returnedTile <=> fsSize = HeaderExpectedSize)
  /\ SizeMismatchIsFatal

\* C3, amended: openTile returns a tile only if the file size equals the
\* expected size (with a matching size an allocation may still fail); a
\* differing size is fatal as above.
C3_ReturnsOnlyIfSizeMatches ==
  /\ returnedTile => fsSize = HeaderExpectedSize
  /\ SizeMismatchIsFatal

\* A 2 x 2 file one byte too long ended in the size-mismatch error.
C3_Witness ==
  /\ pc = "exit" /\ err = "size"
  /\ FieldValue(fsLat) = 2 /\ FieldValue(fsLon) = 2
  /\ fsSize = HeaderExpectedSize + 1
  /\ reported = HeaderExpectedSize

\* The degree of the cell a file name designates on one axis.
SignedDegree(dir, deg) == IF dir \in {"n", "e"} THEN deg ELSE 0 - deg

\* The one-degree cell [d, d+1) contains the origin (in 1/Scale degree).
CellContains(d, origin) == d * Scale <= origin /\ origin < (d + 1) * Scale

\* C4: the hemisphere letters and degree magnitudes of the file name
\* designate, on each axis, the one-degree cell that contains the origin.
C4_NameDesignatesCellOfOrigin ==
  fileName.latDir # "" =>
     /\ CellContains(SignedDegree(fileName.latDir, fileName.latDeg), originLat)
     /\ CellContains(SignedDegree(fileName.lonDir, fileName.lonDeg), originLon)

\* C5: once initSpace has returned, exactly the slot SIZE_SPACE/2 is
\* populated (with the tile openTile returned, whose blocks are allocated)
\* and every other slot is empty; after any error no Space was returned.
C5_OnlyCenterPopulated ==
  /\ returnedSpace =>
       /\ DOMAIN tiles = 0 .. (SIZE_SPACE - 1)
       /\ {s \in DOMAIN tiles : tiles[s] # NULL} = {SIZE_SPACE \div 2}
       /\ tiles[SIZE_SPACE \div 2] = "tile"
       /\ returnedTile
       /\ err = "none"
  /\ (returnedSpace /\ pc = "ready") => {"space", "tile", "data"} \subseteq live
  /\ err # "none" => (pc = "exit" /\ ~returnedSpace)

\* initSpace has returned a Space.
C5_Witness ==
  pc = "ready" /\ returnedSpace /\ tiles[SIZE_SPACE \div 2] = "tile"

\* C6: whenever openTile has been left, by return or by an error, the
\* file it opened is closed; and nothing follows a failed fopen but the
\* error.
C6_FileClosedOnEveryExit ==
  /\ (pc \in {"exit", "store", "ready", "freeLoop", "done"}
        /\ dtedFile # "unopened") => dtedFile \in {"closed", "null"}
  /\ dtedFile = "null" => (pc = "exit" /\ err = "open")

\* The dimensions of a returned tile are both within 0..9999.
DimensionsInRange ==
  tileDims[1] \in 0 .. 9999 /\ tileDims[2] \in 0 .. 9999

\* C7 as stated: whatever bytes the two count fields hold, a returned
\* tile has both dimensions within 0..9999.
C7_DimensionsInRangeAnyBytes ==
  returnedTile => DimensionsInRange

\* C7, amended: when the two count fields hold four ASCII digits each, a
\* returned tile has both dimensions within 0..9999.
C7_DimensionsInRangeForDigits ==
  (returnedTile /\ IsDigits(fsLat) /\ IsDigits(fsLon)) => DimensionsInRange

\* A tile was returned for a header whose latitude count reads "9999".
C7_Witness ==
  returnedTile /\ fsLat = <<57, 57, 57, 57>> /\ tileDims[1] = 9999

\* C8: for L >= 1 and N >= 1 the buffer has L*N elements and every index
\* i*N + j the loop stores to lies within it.
C8_StoresInsideBuffer ==
  (nbLat >= 1 /\ nbLon >= 1 /\ "data" \in live) =>
     /\ dataLen = nbLat * nbLon
     /\ stray = {}
     /\ (pc = "inner" /\ j < nbLat) =>
          (0 <= i * nbLon + j /\ i * nbLon + j < nbLat * nbLon)

\* C9: for L >= 1 and N >= 1 a returned tile has every element of
\* 0..L*N-1 written exactly once, and the element at the flattened index
\* of (record ii, sample jj) is the codec result of that sample.
C9_FullyPopulated ==
  (returnedTile /\ nbLat >= 1 /\ nbLon >= 1) =>
     /\ stray = {}
     /\ \A n \in 0 .. (nbLat * nbLon - 1) :
          n \in DOMAIN writes /\ writes[n] = 1
     /\ \A ii \in 0 .. (nbLon - 1) : \A jj \in 0 .. (nbLat - 1) :
          /\ (ii * nbLon + jj) \in DOMAIN data
          /\ data[ii * nbLon + jj]
               = toLittleEndian(FreadInt16(EncodeLikeDisk(Elevation(ii, jj))))

\* C10: no block is ever freed twice or live after its free; freeSpace
\* calls freeTile exactly on the populated slots it has passed; no tile
\* sits in two slots; and when freeSpace is done, the Space, the tile and
\* its data have each been freed once and nothing is live.
C10_OwnershipLifecycle ==
  /\ \A b \in DOMAIN freed : freed[b] <= 1 /\ (freed[b] = 1 => b \notin live)
  /\ returnedSpace => Cardinality({s \in DOMAIN tiles : tiles[s] = "tile"}) <= 1
  /\ pc = "freeLoop" =>
       LET passed == Cardinality({s \in 0 .. (k - 1) : tiles[s] # NULL})
       IN  freed["tile"] = passed /\ freed["data"] = passed /\ freed["space"] = 0
  /\ pc = "done" => (live = {} /\ \A b \in DOMAIN freed : freed[b] = 1)

\* freeSpace has run to its end on a Space whose tile had 2 x 2 posts.
C10_Witness ==
  pc = "done" /\ live = {} /\ freed["data"] = 1 /\ tileDims = <<2, 2>>

====
